---- MODULE Spec2Model ----
(***************************************************************************)
(* Control skeleton of kerr_raytracing_num.py: the single-ray segmented    *)
(* integrator integrate_geo_single (sign-flip / restart loop around        *)
(* scipy's solve_ivp) and the batch driver raytrace_num.                   *)
(*                                                                         *)
(* Number representation.  The program works on floats; the model uses     *)
(* exact integers in fixed units:                                          *)
(*   - spin a and the impact parameters alpha, beta: units of 5e-7, so     *)
(*     that 1e-6 is 2 and a value strictly between 0 and 1e-6 exists;      *)
(*   - eta: units of (5e-7)^2 / Cos2Den, i.e. the numerator of eta over    *)
(*     the denominator of cos(th_o)^2;                                     *)
(*   - angles: degrees, pi/2 is 90;                                        *)
(*   - affine time and the state vector: ticks, where every solver step    *)
(*     spans FacDen ticks, so that fac*(t - tm1) with fac = 1/FacDen is an *)
(*     exact integer.                                                      *)
(* solve_ivp is outside the repository: a call is a nondeterministic       *)
(* choice of its result (status, samples, recorded events), constrained    *)
(* only by what its interface fixes (see SolveIvp).                        *)
(***************************************************************************)
EXTENDS Integers, Sequences, FiniteSets, TLC

\* ---------------------------------------------------------------- constants
ROUT == 1000
NGEO == 100
NPIX == 500
MINSPIN == 2
EP == 4
BetaMin == 2
FacDen == 100000000
SwitchCap == 10
HalfPi == 90
One == 2000000
Cos2Den == 4

\* ------------------------------------------------------------------- bounds
\* longest target affine time, in solver steps
MaxTau == 12
\* most solver steps in one segment
MaxSteps == 2
\* the first LongCalls solver calls of a ray may span up to MaxSteps steps,
\* the later ones span one step
LongCalls == 1
\* longest short pixel array given to the batch driver
MaxLen == 2

VARIABLES
    pc,        \* position in integrate_geo_single
    inp,       \* its arguments [a, th_o, r_o, aa, bb, taumax, ngeo]
    sr, sth,   \* motion-direction signs
    bb,        \* effective beta (after the nudge)
    ee,        \* eta used by the integrator
    tmax,      \* target affine time, -taumax
    t, x,      \* restart time and state
    nswitch,   \* switch counter
    ts, xs,    \* lists of segments appended so far
    sol,       \* result of the last solve_ivp call
    ret,       \* <<(ts, xs)>> once returned, empty before
    calls,     \* history: the segment [t, y] produced by every solve_ivp call
    nflipR, nflipTH, nboth,  \* history: sign changes performed, double events
    bpc,       \* position in raytrace_num
    binp,      \* its arguments [a, aIsFloat, th_o, thIsFloat, alpha, beta, ...]
    eta,       \* per-pixel eta
    taumax,    \* per-pixel step in tau
    i,         \* loop index
    tau_num_all, x_num_all,  \* collected trajectories
    last,      \* <<tau_num, x_num of the last integrated ray>>, empty before
    icalls,    \* history: arguments of every integrate_geo_single call
    err        \* exception raised by raytrace_num, or None

rayvars == <<pc, inp, sr, sth, bb, ee, tmax, t, x, nswitch, ts, xs, sol, ret,
             calls, nflipR, nflipTH, nboth>>
batchvars == <<bpc, binp, eta, taumax, i, tau_num_all, x_num_all, last, icalls, err>>
vars == <<rayvars, batchvars>>

None == "None"

\* ------------------------------------------------------------ pure helpers
Abs(v) == IF v < 0 THEN -v ELSE v

\* np.sign
Sign(v) == IF v < 0 THEN -1 ELSE IF v > 0 THEN 1 ELSE 0

\* numerator of cos(th_o)^2 over Cos2Den, for the inclinations used
Cos2Num(th) == CASE th = 90 -> 0 [] th = 60 -> 1 [] th = 45 -> 2 [] th = 30 -> 3

\* eta = (alpha^2 - a^2) cos(th_o)^2 + beta^2, times Cos2Den
Eta(a, th, al, be) == (al * al - a * a) * Cos2Num(th) + Cos2Den * be * be

\* ------------------------------------------------- turning-point detectors
\* eventR: the radial potential R at the state (R itself is not computed here)
eventR(R, a, e) == R

\* faulty variant: eventTH without the equatorial override
eventTHNoOverride(TH, a, e) == TH

\* eventTH: the polar potential TH at the state, forced to 1 for equatorial
\* motion at near-zero spin
eventTH(TH, a, e) == IF a < MINSPIN /\ e < Cos2Den * EP THEN 1 ELSE TH

\* ------------------------------------------------------------- solve_ivp
\* values an event function's potential takes at the two ends of a step
Potentials == {-1, 0, 1}

\* solve_ivp records an event in a step whose ends bracket a zero of the
\* event function
Crosses(g0, g1) == (g0 <= 0 /\ g1 >= 0) \/ (g0 >= 0 /\ g1 <= 0)

\* sample times of a segment of n steps from t0
SegT(t0, n) == [k \in 1..(n + 1) |-> t0 - (k - 1) * FacDen]

\* state at time tau on the segment that starts at (t0, x0); the values are
\* not computed from dxdtau: every component moves by the elapsed ticks, so
\* that successive samples differ by multiples of FacDen
YAt(t0, x0, tau) == [j \in 1..5 |-> x0[j] - (t0 - tau)]

SegY(t0, x0, T) == [k \in 1..Len(T) |-> YAt(t0, x0, T[k])]

\* the results solve_ivp can return for the span (t0, tm) from state x0
\* with event functions (eventTH, eventR), both terminal:
\*   status  1: a terminal event ended the segment at its last sample,
\*   status  0: the last sample is tm,
\*   status -1: a step failed before tm.
\* t_events is <<number of eventTH events, number of eventR events>>.
SolveResults(t0, tm, x0, a, e) ==
    LET room(n) == t0 - n * FacDen
        \* the events recorded in the last step, for the potentials at its ends
        recorded == { << IF Crosses(eventTH(p[1], a, e), eventTH(p[2], a, e)) THEN 1 ELSE 0,
                        IF Crosses(eventR(p[3], a, e), eventR(p[4], a, e)) THEN 1 ELSE 0 >> :
                      p \in Potentials \X Potentials \X Potentials \X Potentials }
        ev(n) == { [t |-> SegT(t0, n), y |-> SegY(t0, x0, SegT(t0, n)), status |-> 1,
                    t_events |-> r] : r \in recorded \ {<<0, 0>>} }
        fin(n) == LET T == IF room(n) = tm THEN SegT(t0, n) ELSE SegT(t0, n) \o <<tm>>
                  IN [t |-> T, y |-> SegY(t0, x0, T), status |-> 0, t_events |-> <<0, 0>>]
        bad(n) == [t |-> SegT(t0, n), y |-> SegY(t0, x0, SegT(t0, n)), status |-> -1,
                   t_events |-> <<0, 0>>]
    IN  UNION { ev(n) : n \in { m \in 1..MaxSteps : room(m) >= tm } }
        \cup { fin(n) : n \in { m \in 0..(MaxSteps - 1) : room(m) > tm \/ (m = 0 /\ room(m) = tm) } }
        \cup { bad(n) : n \in { m \in 0..MaxSteps : room(m) > tm } }

\* ------------------------------------------------- integrate_geo_single
\* faulty variant: sth = int(np.sign(bb)) without the default for beta = 0
InitSthNoDefault(b) == Sign(b)

\* sth = int(np.sign(bb)); if sth==0: sth=1
InitSth(b) == IF Sign(b) = 0 THEN 1 ELSE Sign(b)

\* if np.abs(bb)<1.e-6 and th_o!=np.pi/2.: bb = sth*1.e-6
NudgeBeta(b, s, th) == IF Abs(b) < BetaMin /\ th # HalfPi THEN s * BetaMin ELSE b

\* faulty variant: the cap compared one too late
LimitExceededLate(n) == n > SwitchCap + 1

\* if nswitch > 10: break
LimitExceeded(n) == n > SwitchCap

\* faulty variant: sr flipped in every switching step
SrAfterAlways(s, tev) == -s

\* if sol.t_events[1].size != 0: sr *= -1
SrAfter(s, tev) == IF tev[2] # 0 THEN -s ELSE s

\* faulty variant: the polar flip as an elif of the radial one
SthAfterElif(s, tev) == IF tev[2] # 0 THEN s ELSE IF tev[1] # 0 THEN -s ELSE s

\* if sol.t_events[0].size != 0: sth *= -1
SthAfter(s, tev) == IF tev[1] # 0 THEN -s ELSE s

\* faulty variant: the offset added instead of subtracted
RetreatForward(v, vm1) == v + (v - vm1) \div FacDen

\* fac = 1.e-8; dt = fac*(t-tm1); t = t-dt   (and the same on x)
Retreat(v, vm1) == v - (v - vm1) \div FacDen

\* faulty variant: the last segment left out (appended after the break)
ConcatenateButLast(segs) ==
    LET RECURSIVE go(_)
        go(q) == IF Len(q) <= 1 THEN <<>> ELSE Head(q) \o go(Tail(q))
    IN go(segs)

\* np.concatenate over the list of segments
RECURSIVE Concatenate(_)
Concatenate(segs) == IF segs = <<>> THEN <<>> ELSE Head(segs) \o Concatenate(Tail(segs))

RayInputs ==
    [a : {0, 3}, th_o : {60, 90}, r_o : {ROUT}, aa : {0}, bb : {-1, 0, 3},
     taumax : {MaxTau * FacDen}, ngeo : {NGEO}]

NoSol == [t |-> <<>>, y |-> <<>>, status |-> 0, t_events |-> <<0, 0>>]

BatchIdle ==
    /\ bpc = "idle" /\ binp = None /\ eta = <<>> /\ taumax = <<>> /\ i = 0
    /\ tau_num_all = <<>> /\ x_num_all = <<>> /\ last = <<>> /\ icalls = <<>> /\ err = None

\* a call integrate_geo_single(a, th_o, r_o, aa, bb, taumax, ngeo) is entered
Init ==
    /\ pc = "enter" /\ inp \in RayInputs
    /\ sr = 0 /\ sth = 0 /\ bb = 0 /\ ee = 0 /\ tmax = 0 /\ t = 0 /\ x = <<>>
    /\ nswitch = 0 /\ ts = <<>> /\ xs = <<>> /\ sol = NoSol /\ ret = <<>>
    /\ calls = <<>> /\ nflipR = 0 /\ nflipTH = 0 /\ nboth = 0
    /\ BatchIdle

\* lines 189-210
Initialize ==
    /\ pc = "enter"
    /\ sr' = 1
    /\ sth' = InitSth(inp.bb)
    /\ bb' = NudgeBeta(inp.bb, sth', inp.th_o)
    /\ ee' = Eta(inp.a, inp.th_o, inp.aa, bb')
    /\ tmax' = -inp.taumax
    /\ ts' = <<>> /\ xs' = <<>>
    /\ x' = <<0, inp.r_o, inp.th_o, 0, 0>>
    /\ t' = 0
    /\ nswitch' = 0
    /\ pc' = "solve"
    /\ UNCHANGED <<inp, sol, ret, calls, nflipR, nflipTH, nboth, batchvars>>

\* lines 212-221: one solve_ivp call with the current signs, its samples appended
SolveIvp ==
    /\ pc = "solve"
    /\ \E s \in SolveResults(t, tmax, x, inp.a, ee) :
         /\ Len(s.t) > 2 => Len(calls) < LongCalls
         /\ sol' = s
         /\ ts' = Append(ts, s.t)
         /\ xs' = Append(xs, s.y)
         /\ calls' = Append(calls, [t |-> s.t, y |-> s.y])
    /\ pc' = "check"
    /\ UNCHANGED <<inp, sr, sth, bb, ee, tmax, t, x, nswitch, ret, nflipR, nflipTH, nboth,
                   batchvars>>

\* lines 223-224
BreakLimit ==
    /\ pc = "check"
    /\ LimitExceeded(nswitch)
    /\ pc' = "concat"
    /\ UNCHANGED <<inp, sr, sth, bb, ee, tmax, t, x, nswitch, ts, xs, sol, ret, calls,
                   nflipR, nflipTH, nboth, batchvars>>

\* lines 225-248: the switching step
Switch ==
    /\ pc = "check"
    /\ ~LimitExceeded(nswitch)
    /\ sol.status = 1
    /\ LET n == Len(sol.t)
           tn == sol.t[n]
           xn == sol.y[n]
           tm1 == sol.t[n - 1]
           xm1 == sol.y[n - 1]
       IN /\ sr' = SrAfter(sr, sol.t_events)
          /\ sth' = SthAfter(sth, sol.t_events)
          /\ t' = Retreat(tn, tm1)
          /\ x' = [j \in 1..5 |-> Retreat(xn[j], xm1[j])]
    /\ nswitch' = nswitch + 1
    /\ nflipR' = nflipR + (IF sr' # sr THEN 1 ELSE 0)
    /\ nflipTH' = nflipTH + (IF sth' # sth THEN 1 ELSE 0)
    /\ nboth' = nboth + (IF sol.t_events[1] # 0 /\ sol.t_events[2] # 0 THEN 1 ELSE 0)
    /\ pc' = "solve"
    /\ UNCHANGED <<inp, bb, ee, tmax, ts, xs, sol, ret, calls, batchvars>>

\* lines 249-250
BreakDone ==
    /\ pc = "check"
    /\ ~LimitExceeded(nswitch)
    /\ sol.status # 1
    /\ pc' = "concat"
    /\ UNCHANGED <<inp, sr, sth, bb, ee, tmax, t, x, nswitch, ts, xs, sol, ret, calls,
                   nflipR, nflipTH, nboth, batchvars>>

\* lines 253-259
Return ==
    /\ pc = "concat"
    /\ ret' = <<[ts |-> Concatenate(ts), xs |-> Concatenate(xs)]>>
    /\ pc' = "done"
    /\ UNCHANGED <<inp, sr, sth, bb, ee, tmax, t, x, nswitch, ts, xs, sol, calls,
                   nflipR, nflipTH, nboth, batchvars>>

Next == Initialize \/ SolveIvp \/ BreakLimit \/ Switch \/ BreakDone \/ Return

Spec == Init /\ [][Next]_vars

\* -------------------------------------------------------- raytrace_num
ErrSpin == "a should be float in range [0,1)"
ErrIncl == "th_o should be float in range (0,pi/2)"
ErrLen == "alpha, beta are different lengths!"
ErrEta == "there are points where eta is exactly 0!"
ErrUnbound == "UnboundLocalError"
ErrIndex == "IndexError"
ErrPrelude == "error in the analytic prelude"

\* eta = (alpha**2 - a**2)*np.cos(th_o)**2 + beta**2, elementwise
EtaArray(a, th, alpha, beta) == [k \in 1..Len(alpha) |-> Eta(a, th, alpha[k], beta[k])]

\* faulty variant: the checks without the eta == 0 test
CheckErrorNoEta(b) ==
    IF ~(b.aIsFloat /\ 0 <= b.a /\ b.a < One) THEN ErrSpin
    ELSE IF ~(b.thIsFloat /\ 0 < b.th_o /\ b.th_o <= HalfPi) THEN ErrIncl
    ELSE IF ~b.alphaIsArray \/ ~b.betaIsArray THEN ErrUnbound
    ELSE IF Len(b.alpha) # Len(b.beta) THEN ErrLen
    ELSE None

\* lines 25-42: the exception the checks raise on arguments b, or None
CheckError(b) ==
    IF ~(b.aIsFloat /\ 0 <= b.a /\ b.a < One) THEN ErrSpin
    ELSE IF ~(b.thIsFloat /\ 0 < b.th_o /\ b.th_o <= HalfPi) THEN ErrIncl
    ELSE IF ~b.alphaIsArray \/ ~b.betaIsArray THEN ErrUnbound
    ELSE IF Len(b.alpha) # Len(b.beta) THEN ErrLen
    ELSE IF \E k \in 1..Len(b.alpha) : EtaArray(b.a, b.th_o, b.alpha, b.beta)[k] = 0 THEN ErrEta
    ELSE None

\* for i in tqdm(range(NPIX))
LoopRange == 0..(NPIX - 1)

\* the arguments raytrace_num passes to integrate_geo_single for index j
CallArgs(b, tm, j) ==
    [a |-> b.a, th_o |-> b.th_o, r_o |-> b.r_o, aa |-> b.alpha[j + 1], bb |-> b.beta[j + 1],
     taumax |-> tm[j + 1], ngeo |-> NGEO]

ConstArr(n, v) == [k \in 1..n |-> v]

\* v everywhere but w at position j
OneOff(n, v, j, w) == [k \in 1..n |-> IF k = j THEN w ELSE v]

Lens == (0..MaxLen) \cup {NPIX, NPIX + 1}

AlphaArrays == { ConstArr(n, 0) : n \in Lens }

BetaArrays == { ConstArr(n, 3) : n \in Lens }
                \cup { OneOff(n, 3, n, 0) : n \in Lens \ {0} }

BatchInputs ==
    [a : {-1, 0, 3, One}, aIsFloat : BOOLEAN, th_o : {0, 60, 90, 120}, thIsFloat : BOOLEAN,
     r_o : {ROUT}, alpha : AlphaArrays, alphaIsArray : BOOLEAN,
     beta : BetaArrays, betaIsArray : BOOLEAN, ngeo : {NGEO}]

RayIdle ==
    /\ pc = "idle" /\ inp = None
    /\ sr = 0 /\ sth = 0 /\ bb = 0 /\ ee = 0 /\ tmax = 0 /\ t = 0 /\ x = <<>>
    /\ nswitch = 0 /\ ts = <<>> /\ xs = <<>> /\ sol = NoSol /\ ret = <<>>
    /\ calls = <<>> /\ nflipR = 0 /\ nflipTH = 0 /\ nboth = 0

\* a call raytrace_num(a, th_o, r_o, alpha, beta, ngeo) is entered
InitBatch ==
    /\ bpc = "enter" /\ binp \in BatchInputs
    /\ eta = <<>> /\ taumax = <<>> /\ i = 0
    /\ tau_num_all = <<>> /\ x_num_all = <<>> /\ last = <<>> /\ icalls = <<>> /\ err = None
    /\ RayIdle

\* lines 25-42
Checks ==
    /\ bpc = "enter"
    /\ IF CheckError(binp) # None
       THEN /\ err' = CheckError(binp) /\ bpc' = "raised" /\ eta' = eta
       ELSE /\ eta' = EtaArray(binp.a, binp.th_o, binp.alpha, binp.beta)
            /\ bpc' = "prelude" /\ err' = err
    /\ UNCHANGED <<binp, taumax, i, tau_num_all, x_num_all, last, icalls, rayvars>>

\* lines 45-73: turning points, radial roots, total Mino time and the orbit
\* diagnostics, computed by helpers outside this file; they raise, or give
\* one taumax per pixel
Prelude ==
    /\ bpc = "prelude"
    /\ \/ /\ \E tm \in {2 * FacDen, MaxTau * FacDen} : taumax' = ConstArr(Len(eta), tm)
          /\ tau_num_all' = <<>> /\ x_num_all' = <<>>
          /\ i' = 0
          /\ bpc' = "loop" /\ err' = err
       \/ /\ err' = ErrPrelude /\ bpc' = "raised"
          /\ UNCHANGED <<taumax, tau_num_all, x_num_all, i>>
    /\ UNCHANGED <<binp, eta, last, icalls, rayvars>>

\* lines 75-79: one pass of the loop; the call returns the ray's (tau, x),
\* truncated by the switch cap or not
LoopCall ==
    /\ bpc = "loop"
    /\ i \in LoopRange
    /\ IF i + 1 > Len(binp.alpha)
       THEN /\ err' = ErrIndex /\ bpc' = "raised"
            /\ UNCHANGED <<i, tau_num_all, x_num_all, last, icalls>>
       ELSE LET args == CallArgs(binp, taumax, i)
            IN /\ icalls' = Append(icalls, args)
               /\ \E trunc \in BOOLEAN :
                    last' = <<[tau_num |-> <<"tau", i>>, x_num |-> <<"x", i>>, truncated |-> trunc]>>
               /\ tau_num_all' = Append(tau_num_all, <<"tau", i>>)
               /\ x_num_all' = Append(x_num_all, <<"x", i>>)
               /\ i' = i + 1
               /\ UNCHANGED <<bpc, err>>
    /\ UNCHANGED <<binp, eta, taumax, rayvars>>

\* lines 80-83: after the loop
LoopEnd ==
    /\ bpc = "loop"
    /\ i \notin LoopRange
    /\ tau_num_all' = last[1].tau_num
    /\ x_num_all' = last[1].x_num
    /\ bpc' = "returned"
    /\ UNCHANGED <<binp, eta, taumax, i, last, icalls, err, rayvars>>

NextBatch == Checks \/ Prelude \/ LoopCall \/ LoopEnd

SpecBatch == InitBatch /\ [][NextBatch]_vars

\* ===================================================================== claims
LastOf(q) == q[Len(q)]

\* reference flattening of the produced segments: the samples of the first k
\* segments number Offset(k, f), f the field ("t" or "y")
RECURSIVE Offset(_, _)
Offset(k, f) == IF k = 0 THEN 0 ELSE Offset(k - 1, f) + Len(calls[k][f])

IsFlatOf(flat, f) ==
    /\ Len(flat) = Offset(Len(calls), f)
    /\ \A k \in 1..Len(calls) : \A j \in 1..Len(calls[k][f]) :
         flat[Offset(k - 1, f) + j] = calls[k][f][j]

\* C1: integrate_geo_single makes at most 12 solver calls and at most 11
\* switching steps whatever the solver returns, and until it has returned
\* some step of it is always possible (it neither hangs nor runs on).
C1_BoundedCalls ==
    /\ Len(calls) <= 12
    /\ nswitch <= 11
    /\ pc = "done" \/ ENABLED Next

\* every one of the 12 calls, the last included, ended on a terminal event
C1_Witness == pc = "done" /\ Len(calls) = 12 /\ nswitch = 11 /\ sol.status = 1

\* C2: when integrate_geo_single has stopped, for whatever reason, it has
\* returned the samples of every segment produced by every solver call, the
\* last included, concatenated in the order produced.
C2_ReturnsAllSegments ==
    pc = "done" =>
        /\ Len(ret) = 1
        /\ IsFlatOf(ret[1].ts, "t")
        /\ IsFlatOf(ret[1].xs, "y")

\* a ray stopped by the switch cap whose last call produced samples
C2_Witness ==
    /\ pc = "done" /\ nswitch > 10 /\ Len(calls) = 12
    /\ Len(ret[1].ts) >= 24 /\ LastOf(ret[1].ts) = LastOf(LastOf(calls).t)

\* C3: the signs stay in {-1,+1}; they change only in a switching step that
\* follows a solver call ended by a terminal event; there sr is negated iff
\* the radial event fired and sth is negated iff the polar event fired, and a
\* sign whose event did not fire keeps its value.
C3_SignStep ==
    /\ pc' # "enter" => sr' \in {-1, 1} /\ sth' \in {-1, 1}
    /\ (pc # "enter" /\ (sr' # sr \/ sth' # sth)) =>
           pc = "check" /\ pc' = "solve" /\ sol.status = 1
    /\ (pc = "check" /\ pc' = "solve") =>
           /\ sr' = (IF sol.t_events[2] # 0 THEN -sr ELSE sr)
           /\ sth' = (IF sol.t_events[1] # 0 THEN -sth ELSE sth)

C3_SignsChangeOnlyAtEvents == [][C3_SignStep]_vars

\* a switching step in which both events fired has flipped both signs
C3_Witness == pc = "solve" /\ nboth >= 1 /\ sr = -1 /\ sth # InitSth(inp.bb) /\ nswitch = 1

\* C4 (as stated): the loop ends only with the last call complete at -taumax
\* or with the switch counter above its bound; a trajectory that stops short
\* of -taumax implies the counter exceeded its bound.
C4_EndsOnlyAtTargetOrLimit ==
    pc = "done" =>
        /\ (sol.status = 0 /\ LastOf(sol.t) = tmax) \/ nswitch > 10
        /\ LastOf(ret[1].ts) # tmax => nswitch > 10

C7_NoPolarFlipEquatorial ==
    (pc # "enter" /\ inp.a < MINSPIN /\ ee < Cos2Den * EP) =>
        /\ \A v \in Potentials : eventTH(v, inp.a, ee) = 1
        /\ sol.t_events[1] = 0
        /\ nflipTH = 0
        /\ sth = (IF inp.bb < 0 THEN -1 ELSE 1)

\* an equatorial near-zero-spin ray that went through radial switching steps
C7_Witness ==
    /\ pc = "done" /\ inp.a < MINSPIN /\ ee < Cos2Den * EP
    /\ nswitch >= 2 /\ nflipR >= 2

\* C8: before the first solver call sr = +1, nswitch = 0, the state is
\* (0, r_o, th_o, 0, 0) at time 0, sth = sign(beta) with +1 for beta = 0, and
\* the beta behind eta is the given one unless |beta| < 1e-6 off the equator,
\* where it is sth * 1e-6; sth is never 0.
C8_Initialisation ==
    /\ pc # "enter" => sth # 0
    /\ (pc = "solve" /\ calls = <<>>) =>
        /\ sr = 1 /\ nswitch = 0 /\ t = 0
        /\ x = <<0, inp.r_o, inp.th_o, 0, 0>>
        /\ sth = (IF inp.bb < 0 THEN -1 ELSE 1)
        /\ bb = (IF (-BetaMin < inp.bb /\ inp.bb < BetaMin) /\ inp.th_o # HalfPi
                 THEN sth * BetaMin ELSE inp.bb)
        /\ bb = inp.bb \/ (bb * sth > 0 /\ bb * bb = BetaMin * BetaMin)
        /\ ee = (inp.aa * inp.aa - inp.a * inp.a) * Cos2Num(inp.th_o) + Cos2Den * bb * bb
        /\ tmax = -inp.taumax

\* a negative beta below the threshold, off the equator, nudged to -1e-6
C8_Witness ==
    /\ pc = "solve" /\ calls = <<>> /\ inp.bb = -1 /\ inp.th_o # HalfPi
    /\ bb = -BetaMin /\ sth = -1

Malformed ==
    \/ binp.a < 0 \/ binp.a >= One
    \/ binp.th_o <= 0 \/ binp.th_o > HalfPi
    \/ Len(binp.alpha) # Len(binp.beta)
    \/ \E k \in 1..Len(binp.alpha) :
         (binp.alpha[k] * binp.alpha[k] - binp.a * binp.a) * Cos2Num(binp.th_o)
             + Cos2Den * binp.beta[k] * binp.beta[k] = 0

\* C5: on malformed batch arguments raytrace_num raises from its checks
\* before any call to integrate_geo_single: no call has been made, no
\* trajectory exists, and it never gets past the checks.
C5_RejectedBeforeIntegration ==
    Malformed =>
        /\ bpc \in {"enter", "raised"}
        /\ bpc = "raised" => err \in {ErrSpin, ErrIncl, ErrUnbound, ErrLen, ErrEta}
        /\ icalls = <<>> /\ last = <<>>
        /\ tau_num_all = <<>> /\ x_num_all = <<>> /\ taumax = <<>>

\* in-range spin and inclination, equal lengths, the last of several pixels
\* has eta = 0: rejected by the eta check
C5_Witness ==
    /\ bpc = "raised" /\ err = ErrEta
    /\ Len(binp.alpha) = 2 /\ binp.beta[1] # 0 /\ binp.beta[2] = 0

\* C10 (as stated): on a valid batch of n >= 1 pixels raytrace_num ends
\* having called the integrator exactly once per pixel 0..n-1, in order, with
\* that pixel's alpha, beta and taumax, and holds one trajectory per pixel in
\* pixel order.
C10_OneCallPerPixel ==
    (bpc \in {"returned", "raised"} /\ Len(taumax) >= 1) =>
        /\ bpc = "returned"
        /\ Len(icalls) = Len(binp.alpha)
        /\ \A k \in 1..Len(icalls) :
             /\ icalls[k].aa = binp.alpha[k]
             /\ icalls[k].bb = binp.beta[k]
             /\ icalls[k].taumax = taumax[k]
        /\ tau_num_all = [k \in 1..Len(binp.alpha) |-> <<"tau", k - 1>>]
        /\ x_num_all = [k \in 1..Len(binp.alpha) |-> <<"x", k - 1>>]

====
